---- MODULE Spec2Model ----
(***************************************************************************)
(* Movies service: the backend's MovieService (business rules) over the    *)
(* MongoMovieRepository (document store keyed by _id), together with the   *)
(* domain entity Movie and its validation.                                 *)
(*                                                                         *)
(* Spec      the service as deployed: concurrent requests, each a sequence *)
(*           of repository calls; any store call may fail.                 *)
(* RepoSpec  the repository driven directly with arbitrary Movie values,   *)
(*           as the integration test drives it.                            *)
(* RestSpec  the two tiers end to end, one request at a time.              *)
(* BootSpec  the start of the two processes from their environment.        *)
(***************************************************************************)
EXTENDS Integers, Sequences, FiniteSets, TLC

VARIABLES movies, schema, slot, interleaved, log, ops, rr, proc

vars == <<movies, schema, slot, interleaved, log, ops, rr, proc>>

\* ------------------------------------------------------------------ bounds

\* Requests accepted in one behaviour.
MaxOps == 3

\* Concurrent request handlers (goroutines of the RPC server).
Procs == {"h1", "h2"}

\* ------------------------------------------------------------ int32 values

MaxInt32 == 2147483647

MinInt32 == (-2147483647) - 1

Half == 65536

\* a * b on int32 with wrap-around, for 0 <= b < 2^15; computed on 16-bit
\* limbs so that no intermediate value leaves the 32-bit range.
Mul32(a, b) ==
  LET hi == a \div Half
      lo == a % Half
      c  == lo * b
      h  == (hi * b + (c \div Half)) % Half
      sh == IF h >= Half \div 2 THEN h - Half ELSE h
  IN  sh * Half + (c % Half)

\* a + 1 on int32 with wrap-around.
Inc32(a) == IF a = MaxInt32 THEN MinInt32 ELSE a + 1

\* ----------------------------------------------------------------- strings
\* A Go string is modelled as the sequence of its characters; len() counts
\* bytes, so a character carries its UTF-8 width.

Digits == <<"0", "1", "2", "3", "4", "5", "6", "7", "8", "9">>

IsDigit(c) == \E k \in 1..10 : Digits[k] = c

DigitVal(c) == (CHOOSE k \in 1..10 : Digits[k] = c) - 1

ByteWidth(c) == IF c = "é" THEN 2 ELSE 1

RECURSIVE ByteLen(_)
ByteLen(s) == IF s = <<>> THEN 0 ELSE ByteWidth(Head(s)) + ByteLen(Tail(s))

RECURSIVE DigitsValue(_, _)
DigitsValue(s, acc) ==
  IF s = <<>> THEN acc ELSE DigitsValue(Tail(s), acc * 10 + DigitVal(Head(s)))

\* strconv.Atoi on a short string: an optional sign, then one or more decimal
\* digits; anything else is a syntax error.
Atoi(s) ==
  LET signed == s # <<>> /\ Head(s) \in {"+", "-"}
      body   == IF signed THEN Tail(s) ELSE s
  IN  IF body = <<>> \/ \E i \in 1..Len(body) : ~IsDigit(body[i])
      THEN [ok |-> FALSE, val |-> 0]
      ELSE [ok |-> TRUE,
            val |-> IF signed /\ Head(s) = "-" THEN 0 - DigitsValue(body, 0)
                    ELSE DigitsValue(body, 0)]

\* The digits of s read as a number, or -1 once the value leaves int32.
RECURSIVE DigitsSat(_, _)
DigitsSat(s, acc) ==
  IF s = <<>> THEN acc
  ELSE IF acc > (MaxInt32 - DigitVal(Head(s))) \div 10 THEN -1
  ELSE DigitsSat(Tail(s), acc * 10 + DigitVal(Head(s)))

\* strconv.ParseInt(s, 10, 32): a syntax error gives 0, a value out of range
\* gives the nearest int32, both with an error.
ParseInt32(s) ==
  LET signed == s # <<>> /\ Head(s) \in {"+", "-"}
      neg    == signed /\ Head(s) = "-"
      body   == IF signed THEN Tail(s) ELSE s
      mag    == DigitsSat(body, 0)
  IN  IF body = <<>> \/ \E i \in 1..Len(body) : ~IsDigit(body[i])
      THEN [ok |-> FALSE, val |-> 0]
      ELSE IF mag >= 0 THEN [ok |-> TRUE, val |-> IF neg THEN 0 - mag ELSE mag]
      ELSE IF neg /\ DigitsSat(SubSeq(body, 1, Len(body) - 1), 0) = MaxInt32 \div 10
                  /\ body[Len(body)] = "8"
      THEN [ok |-> TRUE, val |-> MinInt32]
      ELSE [ok |-> FALSE, val |-> IF neg THEN MinInt32 ELSE MaxInt32]

\* The decimal text of a natural number.
RECURSIVE Itoa(_)
Itoa(n) == IF n < 10 THEN <<Digits[n + 1]>>
           ELSE Append(Itoa(n \div 10), Digits[(n % 10) + 1])

\* ------------------------------------------------------------------ errors
\* An error is the chain of its messages, outermost wrapper first; the last
\* element is the wrapped base error (what errors.Is and == compare). nil is
\* the empty chain.

Nil == <<>>

ErrMovieNotFound == <<"movie not found">>

ErrInvalidMovieData == <<"invalid movie data">>

ErrMovieAlreadyExists == <<"movie already exists">>

ErrInvalidYear == <<"invalid year format">>

\* What the driver returns when the store call itself fails.
ErrStore == <<"store error">>

\* fmt.Errorf("<ctx>: %w", err)
Wrap(ctx, err) == <<ctx>> \o err

\* err.Error(): the messages of the chain joined by ": " (the id a message
\* formats with %d is left out of the text).
RECURSIVE ErrorText(_)
ErrorText(err) ==
  IF err = Nil THEN ""
  ELSE IF Len(err) = 1 THEN err[1]
  ELSE err[1] \o ": " \o ErrorText(Tail(err))

\* What the RPC client returns when the call itself does not complete.
ErrTransport == <<"rpc error">>

\* The error kind of the service's taxonomy.
ErrKind(err) ==
  IF err = Nil THEN "ok"
  ELSE IF err[Len(err)] = ErrMovieNotFound[1] THEN "NotFound"
  ELSE IF err[Len(err)] = ErrMovieAlreadyExists[1] THEN "AlreadyExists"
  ELSE IF err[1] = ErrInvalidMovieData[1] THEN "InvalidData"
  ELSE "StorageFailure"

\* ------------------------------------------------------------------ domain

\* time.Now().Year()
CurrentYear == 2026

MinYear == 1800

YearSlack == 10

YearLen == 4

NoMovie == [id |-> 0, title |-> "", year |-> <<>>]

MkMovie(id, title, year) == [id |-> id, title |-> title, year |-> year]

\* NewMovie with the upper end of the year range excluded (>= for >).
NewMovie_UpperExclusive(id, title, year) ==
  IF title = "" THEN [err |-> <<"title cannot be empty">>, movie |-> NoMovie]
  ELSE IF year = <<>> THEN [err |-> <<"year cannot be empty">>, movie |-> NoMovie]
  ELSE IF ByteLen(year) # YearLen THEN [err |-> ErrInvalidYear, movie |-> NoMovie]
  ELSE IF ~Atoi(year).ok THEN [err |-> ErrInvalidYear, movie |-> NoMovie]
  ELSE IF Atoi(year).val < MinYear \/ Atoi(year).val >= CurrentYear + YearSlack
       THEN [err |-> <<"year must be between 1800 and current year + 10">>,
             movie |-> NoMovie]
  ELSE [err |-> Nil, movie |-> MkMovie(id, title, year)]

\* NewMovie without the year range check.
NewMovie_NoRange(id, title, year) ==
  IF title = "" THEN [err |-> <<"title cannot be empty">>, movie |-> NoMovie]
  ELSE IF year = <<>> THEN [err |-> <<"year cannot be empty">>, movie |-> NoMovie]
  ELSE IF ByteLen(year) # YearLen THEN [err |-> ErrInvalidYear, movie |-> NoMovie]
  ELSE IF ~Atoi(year).ok THEN [err |-> ErrInvalidYear, movie |-> NoMovie]
  ELSE [err |-> Nil, movie |-> MkMovie(id, title, year)]

NewMovie(id, title, year) ==
  IF title = "" THEN [err |-> <<"title cannot be empty">>, movie |-> NoMovie]
  ELSE IF year = <<>> THEN [err |-> <<"year cannot be empty">>, movie |-> NoMovie]
  ELSE IF ByteLen(year) # YearLen THEN [err |-> ErrInvalidYear, movie |-> NoMovie]
  ELSE IF ~Atoi(year).ok THEN [err |-> ErrInvalidYear, movie |-> NoMovie]
  ELSE IF Atoi(year).val < MinYear \/ Atoi(year).val > CurrentYear + YearSlack
       THEN [err |-> <<"year must be between 1800 and current year + 10">>,
             movie |-> NoMovie]
  ELSE [err |-> Nil, movie |-> MkMovie(id, title, year)]

Validate(m) ==
  IF m.title = "" THEN <<"title cannot be empty">>
  ELSE IF m.year = <<>> THEN <<"year cannot be empty">>
  ELSE IF ByteLen(m.year) # YearLen THEN ErrInvalidYear
  ELSE IF ~Atoi(m.year).ok THEN ErrInvalidYear
  ELSE Nil

\* Movie.Update: the title is assigned before the year is looked at, and the
\* result is what Validate says of the movie as it then is.
Update(m, title, year) ==
  LET m1 == IF title # "" THEN [m EXCEPT !.title = title] ELSE m
  IN  IF year # <<>> /\ ByteLen(year) # YearLen
      THEN [err |-> ErrInvalidYear, movie |-> m1]
      ELSE IF year # <<>> /\ ~Atoi(year).ok
      THEN [err |-> ErrInvalidYear, movie |-> m1]
      ELSE LET m2 == IF year # <<>> THEN [m1 EXCEPT !.year = year] ELSE m1
           IN  [err |-> Validate(m2), movie |-> m2]

\* Movie.IsEqual: field by field.
IsEqual(m, other) ==
  m.id = other.id /\ m.title = other.title /\ m.year = other.year

\* ------------------------------------------------------------------- store
\* The collection "movies": a function from _id to the rest of the document.
\* _id is the primary key, so one document per id.

\* A document that loses the year field.
Doc_TitleOnly(m) == [title |-> m.title, year |-> <<>>]

Doc(m) == [title |-> m.title, year |-> m.year]

MovieOf(ms, id) == MkMovie(id, ms[id].title, ms[id].year)

\* The collection's $jsonSchema validator: year matches ^[0-9]{4}$.
SchemaOk(m) == Len(m.year) = YearLen /\ \A i \in 1..Len(m.year) : IsDigit(m.year[i])

\* InsertOne on a collection whose _id is not unique: a second document with
\* the id replaces the first.
InsertOne_NoUniqueKey(ms, sch, m, fail) ==
  IF fail \/ (sch /\ ~SchemaOk(m)) THEN [res |-> "error", store |-> ms]
  ELSE [res |-> "ok",
        store |-> [i \in DOMAIN ms \cup {m.id} |->
                     IF i = m.id THEN Doc(m) ELSE ms[i]]]

\* collection.InsertOne: "error" when the call fails or the validator rejects
\* the document, "dup" on a duplicate _id, else the document is added.
InsertOne(ms, sch, m, fail) ==
  IF fail \/ (sch /\ ~SchemaOk(m)) THEN [res |-> "error", store |-> ms]
  ELSE IF m.id \in DOMAIN ms THEN [res |-> "dup", store |-> ms]
  ELSE [res |-> "ok",
        store |-> [i \in DOMAIN ms \cup {m.id} |->
                     IF i = m.id THEN Doc(m) ELSE ms[i]]]

\* A delete whose filter is _id <= id: every document up to the id goes.
DeleteOne_UpTo(ms, id) ==
  IF id \in DOMAIN ms
  THEN [n |-> 1, store |-> [i \in {j \in DOMAIN ms : j > id} |-> ms[i]]]
  ELSE [n |-> 0, store |-> ms]

\* collection.DeleteOne by _id: the store and DeletedCount.
DeleteOne(ms, id) ==
  IF id \in DOMAIN ms
  THEN [n |-> 1, store |-> [i \in DOMAIN ms \ {id} |-> ms[i]]]
  ELSE [n |-> 0, store |-> ms]

MaxOf(S) == CHOOSE x \in S : \A y \in S : y <= x

MinOf(S) == CHOOSE x \in S : \A y \in S : x <= y

\* The ids of a set in ascending order (sort by _id: 1).
RECURSIVE SortedIds(_)
SortedIds(S) == IF S = {} THEN <<>> ELSE <<MinOf(S)>> \o SortedIds(S \ {MinOf(S)})

\* Find with sort by _id ascending, skip and limit (0: no limit, negative:
\* its absolute value).
FindSorted(ms, skip, limit) ==
  LET ids  == SortedIds(DOMAIN ms)
      n    == Len(ids)
      cap  == IF limit = 0 THEN n ELSE IF limit < 0 THEN 0 - limit ELSE limit
      from == IF skip > n THEN n ELSE skip
      to   == IF cap > n - from THEN n ELSE from + cap
  IN  [k \in 1..(to - from) |-> MovieOf(ms, ids[from + k])]

\* -------------------------------------------------------------- repository
\* MongoMovieRepository. Each operation is one store call; fail is the store
\* call itself failing (connectivity, deadline).

\* FindAll without SetLimit: every record from the offset on.
RepoFindAll_NoLimit(ms, page, limit, fail) ==
  LET skip == Mul32(page - 1, limit)
  IN  IF fail \/ skip < 0
      THEN [err |-> Wrap("failed to find movies", ErrStore), movies |-> <<>>]
      ELSE [err |-> Nil, movies |-> FindSorted(ms, skip, MaxInt32)]

RepoFindAll(ms, page, limit, fail) ==
  LET skip == Mul32(page - 1, limit)
  IN  IF fail \/ skip < 0
      THEN [err |-> Wrap("failed to find movies", ErrStore), movies |-> <<>>]
      ELSE [err |-> Nil, movies |-> FindSorted(ms, skip, limit)]

\* FindOne without the _id filter: the first document of the collection.
RepoFindByID_Any(ms, id, fail) ==
  IF fail THEN [err |-> Wrap("failed to find movie by ID", ErrStore), movie |-> NoMovie]
  ELSE IF DOMAIN ms = {} THEN [err |-> ErrMovieNotFound, movie |-> NoMovie]
  ELSE [err |-> Nil, movie |-> MovieOf(ms, MinOf(DOMAIN ms))]

RepoFindByID(ms, id, fail) ==
  IF fail THEN [err |-> Wrap("failed to find movie by ID", ErrStore), movie |-> NoMovie]
  ELSE IF id \notin DOMAIN ms THEN [err |-> ErrMovieNotFound, movie |-> NoMovie]
  ELSE [err |-> Nil, movie |-> MovieOf(ms, id)]

\* Create as an upsert: an existing document with the id is replaced.
RepoCreate_Upsert(ms, sch, m, fail) ==
  IF Validate(m) # Nil
  THEN [err |-> Wrap("invalid movie data", Validate(m)), movie |-> NoMovie, store |-> ms]
  ELSE IF fail \/ (sch /\ ~SchemaOk(m))
  THEN [err |-> Wrap("failed to create movie", ErrStore), movie |-> NoMovie, store |-> ms]
  ELSE [err |-> Nil, movie |-> m,
        store |-> [i \in DOMAIN ms \cup {m.id} |->
                     IF i = m.id THEN Doc(m) ELSE ms[i]]]

\* Create without the duplicate-key case: a duplicate is one more store error.
RepoCreate_DupAsStoreError(ms, sch, m, fail) ==
  IF Validate(m) # Nil
  THEN [err |-> Wrap("invalid movie data", Validate(m)), movie |-> NoMovie, store |-> ms]
  ELSE LET r == InsertOne(ms, sch, m, fail)
       IN  IF r.res # "ok"
           THEN [err |-> Wrap("failed to create movie", ErrStore),
                 movie |-> NoMovie, store |-> ms]
           ELSE [err |-> Nil, movie |-> m, store |-> r.store]

RepoCreate(ms, sch, m, fail) ==
  IF Validate(m) # Nil
  THEN [err |-> Wrap("invalid movie data", Validate(m)), movie |-> NoMovie, store |-> ms]
  ELSE LET r == InsertOne(ms, sch, m, fail)
       IN  IF r.res = "dup"
           THEN [err |-> ErrMovieAlreadyExists, movie |-> NoMovie, store |-> ms]
           ELSE IF r.res = "error"
           THEN [err |-> Wrap("failed to create movie", ErrStore),
                 movie |-> NoMovie, store |-> ms]
           ELSE [err |-> Nil, movie |-> m, store |-> r.store]

\* Delete that does not look at DeletedCount.
RepoDelete_IgnoreCount(ms, id, fail) ==
  IF fail THEN [err |-> Wrap("failed to delete movie", ErrStore), store |-> ms]
  ELSE [err |-> Nil, store |-> DeleteOne(ms, id).store]

RepoDelete(ms, id, fail) ==
  IF fail THEN [err |-> Wrap("failed to delete movie", ErrStore), store |-> ms]
  ELSE IF DeleteOne(ms, id).n = 0 THEN [err |-> ErrMovieNotFound, store |-> ms]
  ELSE [err |-> Nil, store |-> DeleteOne(ms, id).store]

RepoCount(ms, fail) ==
  IF fail THEN [err |-> Wrap("failed to count movies", ErrStore), count |-> 0]
  ELSE [err |-> Nil, count |-> Cardinality(DOMAIN ms)]

RepoExistsByID(ms, id, fail) ==
  IF fail THEN [err |-> Wrap("failed to check movie existence", ErrStore), exists |-> FALSE]
  ELSE [err |-> Nil, exists |-> id \in DOMAIN ms]

\* GetNextID sorting by _id ascending: the lowest id plus one.
RepoGetNextID_Ascending(ms, fail) ==
  IF fail THEN [err |-> Wrap("failed to get max movie ID", ErrStore), id |-> 0]
  ELSE IF DOMAIN ms = {} THEN [err |-> Nil, id |-> 1]
  ELSE [err |-> Nil, id |-> Inc32(MinOf(DOMAIN ms))]

RepoGetNextID(ms, fail) ==
  IF fail THEN [err |-> Wrap("failed to get max movie ID", ErrStore), id |-> 0]
  ELSE IF DOMAIN ms = {} THEN [err |-> Nil, id |-> 1]
  ELSE [err |-> Nil, id |-> Inc32(MaxOf(DOMAIN ms))]

\* ----------------------------------------------------------------- startup
\* The two processes from their environment to serving. An environment
\* variable is unset, or set to a value (which may be empty).

Unset == [set |-> FALSE]

SetTo(v) == [set |-> TRUE, val |-> v]

getEnv(env, key, defaultVal) == IF env[key].set THEN env[key].val ELSE defaultVal

\* The value read as a number, the default when it is absent or not one.
getEnvAsInt(env, name, defaultVal) ==
  LET valueStr == IF env[name].set THEN env[name].val ELSE <<>>
  IN  IF Atoi(valueStr).ok THEN Atoi(valueStr).val ELSE defaultVal

GatewayLoad(env) ==
  [Server |-> [Port |-> getEnv(env, "SERVER_PORT", "8080"),
               ReadTimeout |-> getEnvAsInt(env, "READ_TIMEOUT", 10),
               WriteTimeout |-> getEnvAsInt(env, "WRITE_TIMEOUT", 10)],
   MovieService |->
     [GRPCAddress |-> getEnv(env, "MOVIE_SERVICE_GRPC_ADDRESS",
                             "movies-service:50051")]]

\* Validate without the check of the address.
GatewayValidate_Nop(cfg) == "ok"

\* Config.Validate of the gateway: log.Fatal ends the process.
GatewayValidate(cfg) ==
  IF cfg.MovieService.GRPCAddress = "" THEN "fatal" ELSE "ok"

BackendLoad(env) ==
  [Server |-> [Port |-> getEnv(env, "SERVER_PORT", "8080"),
               ReadTimeout |-> getEnvAsInt(env, "READ_TIMEOUT", 10),
               WriteTimeout |-> getEnvAsInt(env, "WRITE_TIMEOUT", 10)],
   Database |-> [ConnectionString |-> getEnv(env, "MONGODB_URI",
                                             "mongodb://mongodb:27017"),
                 DatabaseName |-> getEnv(env, "DATABASE_NAME", "movies_db"),
                 MaxPoolSize |-> getEnvAsInt(env, "MAX_POOL_SIZE", 10)],
   GRPC |-> [Port |-> getEnv(env, "GRPC_PORT", "50051")]]

\* Config.Validate of the backend.
BackendValidate(cfg) ==
  IF cfg.Database.ConnectionString = "" THEN "fatal"
  ELSE IF cfg.Database.DatabaseName = "" THEN "fatal"
  ELSE IF cfg.GRPC.Port = "" THEN "fatal"
  ELSE "ok"

\* Environments to start from.
GatewayEnvs ==
  {[SERVER_PORT |-> Unset, READ_TIMEOUT |-> rt, WRITE_TIMEOUT |-> Unset,
    MOVIE_SERVICE_GRPC_ADDRESS |-> a] :
     rt \in {Unset, SetTo(<<"3", "0">>), SetTo(<<"x">>)},
     a \in {Unset, SetTo(""), SetTo("localhost:50051")}}

BackendEnvs ==
  {[SERVER_PORT |-> Unset, READ_TIMEOUT |-> Unset, WRITE_TIMEOUT |-> Unset,
    MONGODB_URI |-> u, DATABASE_NAME |-> d, MAX_POOL_SIZE |-> Unset,
    GRPC_PORT |-> g] :
     u \in {Unset, SetTo(""), SetTo("mongodb://localhost:27017")},
     d \in {Unset, SetTo("")}, g \in {Unset, SetTo("")}}

Starting(env) == [env |-> env, cfg |-> <<>>, phase |-> "start"]

\* The processes as the other specifications find them: both serving.
Deployed ==
  LET ge == CHOOSE e \in GatewayEnvs :
              e.MOVIE_SERVICE_GRPC_ADDRESS.set
                /\ e.MOVIE_SERVICE_GRPC_ADDRESS.val # "" /\ ~e.READ_TIMEOUT.set
      be == CHOOSE e \in BackendEnvs :
              e.MONGODB_URI.set /\ e.MONGODB_URI.val # ""
                /\ ~e.DATABASE_NAME.set /\ ~e.GRPC_PORT.set
  IN  [gateway |-> [env |-> ge, cfg |-> GatewayLoad(ge), phase |-> "serving"],
       backend |-> [env |-> be, cfg |-> BackendLoad(be), phase |-> "serving"]]

Others == <<movies, schema, slot, interleaved, log, ops, rr>>

\* cfg := config.Load()
Gateway_Load ==
  /\ proc.gateway.phase = "start"
  /\ proc' = [proc EXCEPT !.gateway.cfg = GatewayLoad(proc.gateway.env),
                          !.gateway.phase = "loaded"]
  /\ UNCHANGED Others

\* cfg.Validate()
Gateway_Validate ==
  /\ proc.gateway.phase = "loaded"
  /\ proc' = [proc EXCEPT !.gateway.phase =
                IF GatewayValidate(proc.gateway.cfg) = "fatal" THEN "fatal"
                ELSE "validated"]
  /\ UNCHANGED Others

\* The connection to the backend, then the HTTP server; a failure exits.
Gateway_Connect(ok) ==
  /\ proc.gateway.phase = "validated"
  /\ proc' = [proc EXCEPT !.gateway.phase = IF ok THEN "serving" ELSE "exited"]
  /\ UNCHANGED Others

Backend_Load ==
  /\ proc.backend.phase = "start"
  /\ proc' = [proc EXCEPT !.backend.cfg = BackendLoad(proc.backend.env),
                          !.backend.phase = "loaded"]
  /\ UNCHANGED Others

Backend_Validate ==
  /\ proc.backend.phase = "loaded"
  /\ proc' = [proc EXCEPT !.backend.phase =
                IF BackendValidate(proc.backend.cfg) = "fatal" THEN "fatal"
                ELSE "validated"]
  /\ UNCHANGED Others

\* The connection to the store and the listener, then the RPC server.
Backend_Connect(ok) ==
  /\ proc.backend.phase = "validated"
  /\ proc' = [proc EXCEPT !.backend.phase = IF ok THEN "serving" ELSE "exited"]
  /\ UNCHANGED Others

\* ------------------------------------------------------------------ inputs

TitleInputs == {"", "A", "B"}

YearInputs ==
  { <<>>, <<"a", "b", "c">>, <<"+", "2", "0", "0">>, <<"2", "0", "é">>,
    Itoa(MinYear - 1), Itoa(MinYear), Itoa(CurrentYear + YearSlack),
    Itoa(CurrentYear + YearSlack + 1) }

IdInputs == {-1, 0, 1, 2, 999}

\* Each title with a reference year and each year with a reference title.
CreateInputs ==
  {in \in TitleInputs \X YearInputs : in[1] = "A" \/ in[2] = Itoa(MinYear)}

\* (page, limit) requests: the pages of small and large limits, pages and
\* limits to be normalised, and a page whose offset leaves the int32 range.
ListInputs ==
  ({1, 2} \X {1, 2, 100})
    \cup {<<0, 2>>, <<1, 0>>, <<-1, 101>>, <<21474838, 100>>}

\* ----------------------------------------------------------------- service
\* MovieService. A request occupies a handler slot from its first step until
\* its response is returned. Between two repository calls of one request the
\* other handlers may run.

Idle ==
  [op |-> "idle", pc |-> "idle", title |-> "", year |-> <<>>, id |-> 0,
   page |-> 0, limit |-> 0, nextID |-> 0, movie |-> NoMovie, err |-> Nil,
   ret |-> NoMovie, list |-> <<>>, total |-> 0, trace |-> <<>>, fault |-> FALSE,
   filter |-> [page |-> 0, limit |-> 0]]

InFlight(q) == slot[q].pc \notin {"idle", "done"}

\* interleaved[q]: a repository call of another handler has run since q's
\* request began (q's slot keeps the flag, like its response, until its next
\* request).
Touch(p, fresh) ==
  [q \in Procs |-> IF q = p THEN (IF fresh THEN FALSE ELSE interleaved[p])
                   ELSE interleaved[q] \/ slot[q].pc # "idle"]

Free(q) == slot[q].pc \in {"idle", "done"}

\* A request goes to the first handler that is free (its last response is
\* out): h2 serves only while h1 is busy.
Accept(p) ==
  /\ Free(p)
  /\ p = "h2" => ~Free("h1")
  /\ ops < MaxOps

DefaultLimit == 10

MaxLimit == 100

NormPage(page) == IF page < 1 THEN 1 ELSE page

\* A limit above the maximum clamped to the maximum.
NormLimit_Clamp(limit) ==
  IF limit < 1 THEN DefaultLimit ELSE IF limit > MaxLimit THEN MaxLimit ELSE limit

NormLimit(limit) == IF limit < 1 \/ limit > MaxLimit THEN DefaultLimit ELSE limit

\* CreateMovie, first part: GetNextID, then NewMovie on the id it returned.
CreateAfterNextID(c, title, year, r) ==
  LET nm == NewMovie(r.id, title, year)
      c1 == [c EXCEPT !.op = "create", !.title = title, !.year = year]
  IN  IF r.err # Nil
      THEN [c1 EXCEPT !.pc = "done", !.fault = TRUE, !.trace = <<"GetNextID">>,
                      !.err = Wrap("failed to generate movie ID", r.err)]
      ELSE IF nm.err # Nil
      THEN [c1 EXCEPT !.pc = "done", !.nextID = r.id,
                      !.trace = <<"GetNextID", "NewMovie">>,
                      !.err = Wrap("invalid movie data", nm.err)]
      ELSE [c1 EXCEPT !.pc = "c_exists", !.nextID = r.id, !.movie = nm.movie,
                      !.trace = <<"GetNextID", "NewMovie">>]

CreateMovie_GetNextID(p, title, year, fail) ==
  /\ Accept(p)
  /\ slot' = [slot EXCEPT ![p] =
                CreateAfterNextID(Idle, title, year, RepoGetNextID(movies, fail))]
  /\ interleaved' = Touch(p, TRUE)
  /\ ops' = ops + 1
  /\ UNCHANGED <<proc, movies, schema, log, rr>>

\* The existence re-check with the return after a failed check missing: the
\* error is kept and the call goes on to persist.
CreateAfterExists_NoReturn(c, r) ==
  LET c1 == [c EXCEPT !.trace = Append(c.trace, "ExistsByID")]
  IN  IF r.err # Nil
      THEN [c1 EXCEPT !.pc = "c_create", !.fault = TRUE,
                      !.err = Wrap("failed to check movie existence", r.err)]
      ELSE IF r.exists
      THEN [c1 EXCEPT !.pc = "done", !.err = ErrMovieAlreadyExists]
      ELSE [c1 EXCEPT !.pc = "c_create"]

\* CreateMovie, second part: the existence re-check on the assigned id.
CreateAfterExists(c, r) ==
  LET c1 == [c EXCEPT !.trace = Append(c.trace, "ExistsByID")]
  IN  IF r.err # Nil
      THEN [c1 EXCEPT !.pc = "done", !.fault = TRUE,
                      !.err = Wrap("failed to check movie existence", r.err)]
      ELSE IF r.exists
      THEN [c1 EXCEPT !.pc = "done", !.err = ErrMovieAlreadyExists]
      ELSE [c1 EXCEPT !.pc = "c_create"]

CreateMovie_ExistsByID(p, fail) ==
  /\ slot[p].pc = "c_exists"
  /\ slot' = [slot EXCEPT ![p] =
                CreateAfterExists(slot[p], RepoExistsByID(movies, slot[p].movie.id, fail))]
  /\ interleaved' = Touch(p, FALSE)
  /\ UNCHANGED <<proc, movies, schema, log, ops, rr>>

\* CreateMovie, last part: persist through the repository.
CreateAfterCreate(c, r, fail) ==
  LET c1 == [c EXCEPT !.trace = Append(c.trace, "Create"), !.pc = "done"]
  IN  IF r.err # Nil
      THEN [c1 EXCEPT !.fault = fail, !.err = Wrap("failed to create movie", r.err)]
      ELSE [c1 EXCEPT !.ret = r.movie]

CreateMovie_Create(p, fail) ==
  LET r == RepoCreate(movies, schema, slot[p].movie, fail)
  IN  /\ slot[p].pc = "c_create"
      /\ slot' = [slot EXCEPT ![p] = CreateAfterCreate(slot[p], r, fail)]
      /\ movies' = r.store
      /\ log' = IF r.err = Nil
                THEN Append(log, [e |-> "create", id |-> r.movie.id])
                ELSE log
      /\ interleaved' = Touch(p, FALSE)
      /\ UNCHANGED <<proc, schema, ops, rr>>

\* DeleteMovie returning nil for a record that does not exist.
DeleteAfterExists_Silent(c, id, r) ==
  LET c1 == [c EXCEPT !.op = "delete", !.id = id]
  IN  IF id <= 0 THEN [c1 EXCEPT !.pc = "done", !.err = ErrInvalidMovieData]
      ELSE IF r.err # Nil
      THEN [c1 EXCEPT !.pc = "done", !.fault = TRUE, !.trace = <<"ExistsByID">>,
                      !.err = Wrap("failed to check movie existence", r.err)]
      ELSE IF ~r.exists
      THEN [c1 EXCEPT !.pc = "done", !.trace = <<"ExistsByID">>]
      ELSE [c1 EXCEPT !.pc = "d_delete", !.trace = <<"ExistsByID">>]

\* DeleteMovie, first part: the id check and the existence check.
DeleteAfterExists(c, id, r) ==
  LET c1 == [c EXCEPT !.op = "delete", !.id = id]
  IN  IF id <= 0 THEN [c1 EXCEPT !.pc = "done", !.err = ErrInvalidMovieData]
      ELSE IF r.err # Nil
      THEN [c1 EXCEPT !.pc = "done", !.fault = TRUE, !.trace = <<"ExistsByID">>,
                      !.err = Wrap("failed to check movie existence", r.err)]
      ELSE IF ~r.exists
      THEN [c1 EXCEPT !.pc = "done", !.trace = <<"ExistsByID">>,
                      !.err = ErrMovieNotFound]
      ELSE [c1 EXCEPT !.pc = "d_delete", !.trace = <<"ExistsByID">>]

DeleteMovie_ExistsByID(p, id, fail) ==
  /\ Accept(p)
  /\ id <= 0 => ~fail
  /\ slot' = [slot EXCEPT ![p] =
                DeleteAfterExists(Idle, id, RepoExistsByID(movies, id, fail))]
  /\ interleaved' = IF id <= 0 THEN [interleaved EXCEPT ![p] = FALSE]
                    ELSE Touch(p, TRUE)
  /\ ops' = ops + 1
  /\ UNCHANGED <<proc, movies, schema, log, rr>>

\* DeleteMovie, last part: the delete itself.
DeleteAfterDelete(c, r) ==
  LET c1 == [c EXCEPT !.trace = Append(c.trace, "Delete"), !.pc = "done"]
  IN  IF r.err # Nil
      THEN [c1 EXCEPT !.fault = (ErrKind(r.err) = "StorageFailure"),
                      !.err = Wrap("failed to delete movie with id", r.err)]
      ELSE c1

DeleteMovie_Delete(p, fail) ==
  LET r == RepoDelete(movies, slot[p].id, fail)
  IN  /\ slot[p].pc = "d_delete"
      /\ slot' = [slot EXCEPT ![p] = DeleteAfterDelete(slot[p], r)]
      /\ movies' = r.store
      /\ log' = IF r.err = Nil
                THEN Append(log, [e |-> "delete", id |-> slot[p].id])
                ELSE log
      /\ interleaved' = Touch(p, FALSE)
      /\ UNCHANGED <<proc, schema, ops, rr>>

\* GetMovie without the id check.
GetMovieResult_NoIdCheck(c, id, r) ==
  LET c1 == [c EXCEPT !.op = "get", !.id = id, !.pc = "done"]
  IN  IF r.err # Nil
      THEN [c1 EXCEPT !.trace = <<"FindByID">>,
                      !.fault = (ErrKind(r.err) = "StorageFailure"),
                      !.err = Wrap("failed to get movie with id", r.err)]
      ELSE [c1 EXCEPT !.trace = <<"FindByID">>, !.ret = r.movie]

\* GetMovie: the id check and one FindByID.
GetMovieResult(c, id, r) ==
  LET c1 == [c EXCEPT !.op = "get", !.id = id, !.pc = "done"]
  IN  IF id <= 0 THEN [c1 EXCEPT !.err = ErrInvalidMovieData]
      ELSE IF r.err # Nil
      THEN [c1 EXCEPT !.trace = <<"FindByID">>,
                      !.fault = (ErrKind(r.err) = "StorageFailure"),
                      !.err = Wrap("failed to get movie with id", r.err)]
      ELSE [c1 EXCEPT !.trace = <<"FindByID">>, !.ret = r.movie]

GetMovie(p, id, fail) ==
  /\ Accept(p)
  /\ id <= 0 => ~fail
  /\ slot' = [slot EXCEPT ![p] = GetMovieResult(Idle, id, RepoFindByID(movies, id, fail))]
  /\ interleaved' = IF id <= 0 THEN [interleaved EXCEPT ![p] = FALSE]
                    ELSE Touch(p, TRUE)
  /\ ops' = ops + 1
  /\ UNCHANGED <<proc, movies, schema, log, rr>>

\* The filter after the service's normalisation, as handed to FindAll.
NormFilter(page, limit) == [page |-> NormPage(page), limit |-> NormLimit(limit)]

\* GetMovies, first part: the filter is normalised, then FindAll.
GetMoviesAfterFindAll(c, page, limit, r, fail) ==
  LET c1 == [c EXCEPT !.op = "list", !.page = page, !.limit = limit,
                      !.filter = NormFilter(page, limit),
                      !.trace = <<"FindAll">>]
  IN  IF r.err # Nil
      THEN [c1 EXCEPT !.pc = "done", !.fault = fail,
                      !.err = Wrap("failed to get movies", r.err)]
      ELSE [c1 EXCEPT !.pc = "l_count", !.list = r.movies]

GetMovies_FindAll(p, page, limit, fail) ==
  /\ Accept(p)
  /\ slot' = [slot EXCEPT ![p] =
                GetMoviesAfterFindAll(Idle, page, limit,
                   RepoFindAll(movies, NormFilter(page, limit).page,
                               NormFilter(page, limit).limit, fail), fail)]
  /\ interleaved' = Touch(p, TRUE)
  /\ ops' = ops + 1
  /\ UNCHANGED <<proc, movies, schema, log, rr>>

\* GetMovies failing the whole call when Count fails.
GetMoviesAfterCount_Fail(c, r) ==
  LET c1 == [c EXCEPT !.trace = Append(c.trace, "Count"), !.pc = "done"]
  IN  IF r.err # Nil
      THEN [c1 EXCEPT !.fault = TRUE, !.list = <<>>, !.total = 0,
                      !.err = Wrap("failed to count movies", r.err)]
      ELSE [c1 EXCEPT !.total = r.count]

\* GetMovies, last part: Count; its failure leaves the page with total 0.
GetMoviesAfterCount(c, r) ==
  LET c1 == [c EXCEPT !.trace = Append(c.trace, "Count"), !.pc = "done"]
  IN  IF r.err # Nil THEN [c1 EXCEPT !.fault = TRUE, !.total = 0]
      ELSE [c1 EXCEPT !.total = r.count]

GetMovies_Count(p, fail) ==
  /\ slot[p].pc = "l_count"
  /\ slot' = [slot EXCEPT ![p] = GetMoviesAfterCount(slot[p], RepoCount(movies, fail))]
  /\ interleaved' = Touch(p, FALSE)
  /\ UNCHANGED <<proc, movies, schema, log, ops, rr>>

NoCall == [op |-> "none", movie |-> NoMovie, err |-> Nil]

Init ==
  /\ movies = <<>>
  /\ schema = TRUE
  /\ slot = [p \in Procs |-> Idle]
  /\ interleaved = [p \in Procs |-> FALSE]
  /\ log = <<>>
  /\ ops = 0
  /\ rr = NoCall
  /\ proc = Deployed

Next ==
  \/ \E p \in Procs, in \in CreateInputs, f \in BOOLEAN :
       CreateMovie_GetNextID(p, in[1], in[2], f)
  \/ \E p \in Procs, f \in BOOLEAN : CreateMovie_ExistsByID(p, f)
  \/ \E p \in Procs, f \in BOOLEAN : CreateMovie_Create(p, f)
  \/ \E p \in Procs, i \in IdInputs, f \in BOOLEAN : DeleteMovie_ExistsByID(p, i, f)
  \/ \E p \in Procs, f \in BOOLEAN : DeleteMovie_Delete(p, f)
  \/ \E p \in Procs, i \in IdInputs, f \in BOOLEAN : GetMovie(p, i, f)
  \/ \E p \in Procs, in \in ListInputs, f \in BOOLEAN :
       GetMovies_FindAll(p, in[1], in[2], f)
  \/ \E p \in Procs, f \in BOOLEAN : GetMovies_Count(p, f)

Spec == Init /\ [][Next]_vars

\* ------------------------------------------------- the repository, directly
\* The repository's operations called one at a time with arbitrary values,
\* on a collection with or without the schema validator.

RepoIds == {1, 2}

RepoMovieInputs == {MkMovie(i, in[1], in[2]) : i \in RepoIds, in \in CreateInputs}

Repo_Create(m, fail) ==
  LET r == RepoCreate(movies, schema, m, fail)
  IN  /\ movies' = r.store
      /\ rr' = [op |-> "Create", movie |-> m, err |-> r.err]
      /\ UNCHANGED <<proc, schema, slot, interleaved, log, ops>>

Repo_Delete(id, fail) ==
  LET r == RepoDelete(movies, id, fail)
  IN  /\ movies' = r.store
      /\ rr' = [op |-> "Delete", movie |-> MkMovie(id, "", <<>>), err |-> r.err]
      /\ UNCHANGED <<proc, schema, slot, interleaved, log, ops>>

Repo_FindByID(id, fail) ==
  LET r == RepoFindByID(movies, id, fail)
  IN  /\ rr' = [op |-> "FindByID", movie |-> [r.movie EXCEPT !.id = id], err |-> r.err]
      /\ UNCHANGED <<proc, movies, schema, slot, interleaved, log, ops>>

Repo_GetNextID(fail) ==
  LET r == RepoGetNextID(movies, fail)
  IN  /\ rr' = [op |-> "GetNextID", movie |-> MkMovie(r.id, "", <<>>), err |-> r.err]
      /\ UNCHANGED <<proc, movies, schema, slot, interleaved, log, ops>>

RepoInit ==
  /\ movies = <<>>
  /\ schema \in BOOLEAN
  /\ slot = [p \in Procs |-> Idle]
  /\ interleaved = [p \in Procs |-> FALSE]
  /\ log = <<>>
  /\ ops = 0
  /\ rr = NoCall
  /\ proc = Deployed

RepoNext ==
  \/ \E m \in RepoMovieInputs, f \in BOOLEAN : Repo_Create(m, f)
  \/ \E i \in RepoIds, f \in BOOLEAN : Repo_Delete(i, f)
  \/ \E i \in RepoIds, f \in BOOLEAN : Repo_FindByID(i, f)

RepoSpec == RepoInit /\ [][RepoNext]_vars

\* The repository driven directly with ids over the whole int32 range:
\* small ids and the two largest ones.
WideIds == {1, 2, MaxInt32 - 1, MaxInt32}

WideNext ==
  \/ \E i \in WideIds, f \in BOOLEAN :
       Repo_Create(MkMovie(i, "A", Itoa(MinYear)), f)
  \/ \E i \in WideIds, f \in BOOLEAN : Repo_Delete(i, f)
  \/ \E f \in BOOLEAN : Repo_GetNextID(f)

WideSpec == RepoInit /\ [][WideNext]_vars

\* The entity alone: a movie made by the constructor, then updated.
Movie_New(id, title, year) ==
  LET r == NewMovie(id, title, year)
  IN  /\ rr' = [op |-> "NewMovie", movie |-> r.movie, err |-> r.err,
                before |-> NoMovie, title |-> title, year |-> year]
      /\ UNCHANGED <<proc, movies, schema, slot, interleaved, log, ops>>

Movie_Update(title, year) ==
  LET r == Update(rr.movie, title, year)
  IN  /\ rr.op \in {"NewMovie", "Update"}
      /\ rr.movie # NoMovie
      /\ rr' = [op |-> "Update", movie |-> r.movie, err |-> r.err,
                before |-> rr.movie, title |-> title, year |-> year]
      /\ UNCHANGED <<proc, movies, schema, slot, interleaved, log, ops>>

DomainNext ==
  \/ \E in \in CreateInputs : Movie_New(1, in[1], in[2])
  \/ \E t \in TitleInputs, y \in YearInputs : Movie_Update(t, y)

DomainSpec == RepoInit /\ [][DomainNext]_vars

\* ------------------------------------------- a service call run to its end
\* The service's operations as one request runs them; k is the repository
\* call of the request that fails (0: none does).

RunGetMovies(ms, page, limit, k) ==
  LET f  == NormFilter(page, limit)
      c1 == GetMoviesAfterFindAll(Idle, page, limit,
                                  RepoFindAll(ms, f.page, f.limit, k = 1), k = 1)
  IN  [c |-> IF c1.pc = "done" THEN c1
             ELSE GetMoviesAfterCount(c1, RepoCount(ms, k = 2)),
       store |-> ms]

RunGetMovie(ms, id, k) ==
  [c |-> GetMovieResult(Idle, id, RepoFindByID(ms, id, k = 1)), store |-> ms]

RunCreateMovie(ms, sch, title, year, k) ==
  LET c1 == CreateAfterNextID(Idle, title, year, RepoGetNextID(ms, k = 1))
      c2 == CreateAfterExists(c1, RepoExistsByID(ms, c1.movie.id, k = 2))
      r  == RepoCreate(ms, sch, c2.movie, k = 3)
  IN  IF c1.pc = "done" THEN [c |-> c1, store |-> ms]
      ELSE IF c2.pc = "done" THEN [c |-> c2, store |-> ms]
      ELSE [c |-> CreateAfterCreate(c2, r, k = 3), store |-> r.store]

RunDeleteMovie(ms, id, k) ==
  LET c1 == DeleteAfterExists(Idle, id, RepoExistsByID(ms, id, k = 1))
      r  == RepoDelete(ms, id, k = 2)
  IN  IF c1.pc = "done" THEN [c |-> c1, store |-> ms]
      ELSE [c |-> DeleteAfterDelete(c1, r), store |-> r.store]

\* -------------------------------------------------------------- RPC server
\* MovieServer: a handler returns a response and a transport-level error.

NoResp ==
  [success |-> FALSE, error |-> "", movie |-> NoMovie, movies |-> <<>>, total |-> 0]

Failure(reason) == [NoResp EXCEPT !.error = reason]

\* The conversion between a domain Movie and a pb.Movie, field by field.
PbMovie(m) == [id |-> m.id, title |-> m.title, year |-> m.year]

\* A handler's outcome: the response, the transport-level error, whether the
\* service was called and what it returned, and the store afterwards.
Served(resp, svc, run) ==
  [resp |-> resp, terr |-> Nil, ran |-> TRUE, svc |-> svc, c |-> run.c,
   store |-> run.store]

NotServed(ms) ==
  [resp |-> NoResp, terr |-> Nil, ran |-> FALSE, svc |-> FALSE, c |-> Idle,
   store |-> ms]

ServerGetMovies(ms, page, limit, k) ==
  LET run == RunGetMovies(ms, page, limit, k)
  IN  IF run.c.err # Nil
      THEN Served(Failure(ErrorText(run.c.err)), TRUE, run)
      ELSE Served([NoResp EXCEPT !.success = TRUE,
                                 !.movies = [i \in DOMAIN run.c.list |->
                                               PbMovie(run.c.list[i])],
                                 !.total = run.c.total], TRUE, run)

ServerGetMovie(ms, id, k) ==
  LET run == RunGetMovie(ms, id, k)
  IN  IF id <= 0
      THEN Served(Failure("invalid movie ID"), FALSE, [c |-> Idle, store |-> ms])
      ELSE IF run.c.err # Nil
      THEN IF run.c.err = ErrMovieNotFound
           THEN Served(Failure("movie not found"), TRUE, run)
           ELSE Served(Failure(ErrorText(run.c.err)), TRUE, run)
      ELSE Served([NoResp EXCEPT !.success = TRUE, !.movie = PbMovie(run.c.ret)],
                  TRUE, run)

ServerCreateMovie(ms, sch, title, year, k) ==
  LET run == RunCreateMovie(ms, sch, title, year, k)
  IN  IF title = "" \/ year = <<>>
      THEN Served(Failure("title and year are required"), FALSE,
                  [c |-> Idle, store |-> ms])
      ELSE IF run.c.err # Nil
      THEN Served(Failure(ErrorText(run.c.err)), TRUE, run)
      ELSE Served([NoResp EXCEPT !.success = TRUE, !.movie = PbMovie(run.c.ret)],
                  TRUE, run)

\* DeleteMovie answering a delete of an absent record with success.
ServerDeleteMovie_AbsentIsSuccess(ms, id, k) ==
  LET run == RunDeleteMovie(ms, id, k)
  IN  IF id <= 0
      THEN Served(Failure("invalid movie ID"), FALSE, [c |-> Idle, store |-> ms])
      ELSE IF run.c.err # Nil /\ run.c.err # ErrMovieNotFound
      THEN Served(Failure(ErrorText(run.c.err)), TRUE, run)
      ELSE Served([NoResp EXCEPT !.success = TRUE], TRUE, run)

ServerDeleteMovie(ms, id, k) ==
  LET run == RunDeleteMovie(ms, id, k)
  IN  IF id <= 0
      THEN Served(Failure("invalid movie ID"), FALSE, [c |-> Idle, store |-> ms])
      ELSE IF run.c.err # Nil
      THEN IF run.c.err = ErrMovieNotFound
           THEN Served(Failure("movie not found"), TRUE, run)
           ELSE Served(Failure(ErrorText(run.c.err)), TRUE, run)
      ELSE Served([NoResp EXCEPT !.success = TRUE], TRUE, run)

\* ------------------------------------------------------ gateway: RPC client
\* MovieGRPCClient. t is the fate of the call: "ok", "unavailable" (the
\* request never reaches the server) or "deadline" (the server handled it and
\* the response did not come back).

Transport == {"ok", "unavailable", "deadline"}

NotCalled(ms) ==
  [err |-> Nil, movie |-> NoMovie, movies |-> <<>>, total |-> 0, sent |-> FALSE,
   t |-> "ok", srv |-> NotServed(ms), store |-> ms]

\* A client that does not look at the response's success field.
Remote_IgnoreSuccess(srv, t, ms, what) ==
  LET none == [NotCalled(ms) EXCEPT !.sent = TRUE, !.t = t]
  IN  IF t = "unavailable" THEN [none EXCEPT !.err = Wrap(what, ErrTransport)]
      ELSE IF t = "deadline" \/ srv.terr # Nil
      THEN [none EXCEPT !.err = Wrap(what, IF t = "deadline" THEN ErrTransport
                                           ELSE srv.terr),
                        !.srv = srv, !.store = srv.store]
      ELSE [none EXCEPT !.movie = PbMovie(srv.resp.movie),
                        !.movies = [i \in DOMAIN srv.resp.movies |->
                                      PbMovie(srv.resp.movies[i])],
                        !.total = srv.resp.total,
                        !.srv = srv, !.store = srv.store]

\* The common shape of the four client methods.
Remote(srv, t, ms, what) ==
  LET none == [NotCalled(ms) EXCEPT !.sent = TRUE, !.t = t]
  IN  IF t = "unavailable" THEN [none EXCEPT !.err = Wrap(what, ErrTransport)]
      ELSE IF t = "deadline" \/ srv.terr # Nil
      THEN [none EXCEPT !.err = Wrap(what, IF t = "deadline" THEN ErrTransport
                                           ELSE srv.terr),
                        !.srv = srv, !.store = srv.store]
      ELSE IF ~srv.resp.success
      THEN [none EXCEPT !.err = <<"movie service error: " \o srv.resp.error>>,
                        !.srv = srv, !.store = srv.store]
      ELSE [none EXCEPT !.movie = PbMovie(srv.resp.movie),
                        !.movies = [i \in DOMAIN srv.resp.movies |->
                                      PbMovie(srv.resp.movies[i])],
                        !.total = srv.resp.total,
                        !.srv = srv, !.store = srv.store]

ClientGetMovies(ms, page, limit, k, t) ==
  Remote(ServerGetMovies(ms, page, limit, k), t, ms, "failed to get movies")

ClientGetMovie(ms, id, k, t) ==
  Remote(ServerGetMovie(ms, id, k), t, ms, "failed to get movie")

ClientCreateMovie(ms, sch, title, year, k, t) ==
  Remote(ServerCreateMovie(ms, sch, title, year, k), t, ms, "failed to create movie")

ClientDeleteMovie(ms, id, k, t) ==
  Remote(ServerDeleteMovie(ms, id, k), t, ms, "failed to delete movie")

\* --------------------------------------------------------- gateway: service
\* The gateway's MovieService in front of the remote port.

GwNormPage(page) == IF page < 1 THEN 1 ELSE page

\* A limit above the maximum clamped to the maximum by the gateway.
GwNormLimit_Clamp(limit) ==
  IF limit < 1 THEN DefaultLimit ELSE IF limit > MaxLimit THEN MaxLimit ELSE limit

GwNormLimit(limit) == IF limit < 1 \/ limit > MaxLimit THEN DefaultLimit ELSE limit

\* The outcome of a gateway call that went to the remote port.
Forwarded(r, what, page, limit) ==
  [err |-> IF r.err # Nil THEN Wrap(what, r.err) ELSE Nil,
   movie |-> r.movie, movies |-> r.movies, total |-> r.total,
   called |-> TRUE, fwd |-> [page |-> page, limit |-> limit],
   cl |-> r, store |-> r.store]

\* The outcome of a gateway call refused before the remote port.
Refused(ms, err) ==
  [err |-> err, movie |-> NoMovie, movies |-> <<>>, total |-> 0,
   called |-> FALSE, fwd |-> [page |-> 0, limit |-> 0],
   cl |-> NotCalled(ms), store |-> ms]

GwGetMovies(ms, page, limit, k, t) ==
  Forwarded(ClientGetMovies(ms, GwNormPage(page), GwNormLimit(limit), k, t),
            "failed to get movies", GwNormPage(page), GwNormLimit(limit))

GwGetMovie(ms, id, k, t) ==
  IF id <= 0 THEN Refused(ms, <<"invalid movie ID">>)
  ELSE Forwarded(ClientGetMovie(ms, id, k, t), "failed to get movie", 0, 0)

GwCreateMovie(ms, sch, title, year, k, t) ==
  IF title = "" \/ year = <<>> THEN Refused(ms, <<"title and year are required">>)
  ELSE Forwarded(ClientCreateMovie(ms, sch, title, year, k, t),
                 "failed to create movie", 0, 0)

\* DeleteMovie without the id check.
GwDeleteMovie_NoCheck(ms, id, k, t) ==
  Forwarded(ClientDeleteMovie(ms, id, k, t), "failed to delete movie", 0, 0)

GwDeleteMovie(ms, id, k, t) ==
  IF id <= 0 THEN Refused(ms, <<"invalid movie ID">>)
  ELSE Forwarded(ClientDeleteMovie(ms, id, k, t), "failed to delete movie", 0, 0)

\* --------------------------------------------------- gateway: REST handlers
\* MovieHandler: the status written and the text of http.Error.

StatusOK == 200

StatusCreated == 201

StatusNoContent == 204

StatusBadRequest == 400

StatusInternalServerError == 500

\* The request as it arrived: path id, body fields and query values of a REST
\* request; n, p and l are the id, page and limit of a direct RPC.
NoReq ==
  [id |-> <<>>, title |-> "", year |-> <<>>, page |-> <<>>, limit |-> <<>>,
   n |-> 0, p |-> 0, l |-> 0]

\* What a handler wrote, over the outcome g of the gateway service.
Answered(op, g, okStatus) ==
  [op |-> op, req |-> NoReq,
   status |-> IF g.err # Nil THEN StatusInternalServerError ELSE okStatus,
   text |-> ErrorText(g.err), parsed |-> TRUE, gw |-> g, store |-> g.store]

\* What a handler wrote when it could not read the request.
Unreadable(op, ms, text) ==
  [op |-> op, req |-> NoReq, status |-> StatusBadRequest, text |-> text,
   parsed |-> FALSE,
   gw |-> Refused(ms, Nil), store |-> ms]

HandlerGetMovies(ms, pageStr, limitStr, k, t) ==
  LET pageNum  == ParseInt32(pageStr).val
      limitNum == ParseInt32(limitStr).val
  IN  Answered("GetMovies",
               GwGetMovies(ms, IF pageNum < 1 THEN 1 ELSE pageNum,
                           IF limitNum < 1 THEN DefaultLimit ELSE limitNum, k, t),
               StatusOK)

HandlerGetMovie(ms, idStr, k, t) ==
  IF ~ParseInt32(idStr).ok THEN Unreadable("GetMovie", ms, "Invalid movie ID")
  ELSE Answered("GetMovie", GwGetMovie(ms, ParseInt32(idStr).val, k, t), StatusOK)

\* body.ok: the request body decodes as JSON into the title and year fields.
HandlerCreateMovie(ms, sch, body, k, t) ==
  IF ~body.ok THEN Unreadable("CreateMovie", ms, "Invalid request body")
  ELSE Answered("CreateMovie", GwCreateMovie(ms, sch, body.title, body.year, k, t),
                StatusCreated)

HandlerDeleteMovie(ms, idStr, k, t) ==
  IF ~ParseInt32(idStr).ok THEN Unreadable("DeleteMovie", ms, "Invalid movie ID")
  ELSE Answered("DeleteMovie", GwDeleteMovie(ms, ParseInt32(idStr).val, k, t),
                StatusNoContent)

\* ------------------------------------------------ the two tiers, end to end
\* One request at a time, either a REST request to the gateway or an RPC made
\* to the backend directly; rr is what the request was answered with.

\* Path ids (the route admits digits only), the last one beyond int32.
RestIdInputs ==
  { Itoa(0), Itoa(1), Itoa(2), Itoa(999),
    <<"9", "9", "9", "9", "9", "9", "9", "9", "9", "9", "9">> }

\* page and limit query values: absent, in range, to be coerced, not numbers,
\* a page whose offset leaves int32 and a page that itself does.
RestListInputs ==
  { << <<>>, <<>> >>, <<Itoa(1), Itoa(2)>>, <<Itoa(2), Itoa(1)>>,
    <<Itoa(0), Itoa(MaxLimit + 1)>>, << <<"x">>, <<"-", "1">> >>,
    <<Itoa(21474838), Itoa(MaxLimit)>>,
    << <<"9", "9", "9", "9", "9", "9", "9", "9", "9", "9", "9">>, Itoa(2) >> }

\* Titles and years to create: each title with the reference year, and each
\* year the constructor rejects.
RestCreateInputs ==
  {in \in CreateInputs :
     in[2] = Itoa(MinYear) \/ NewMovie(1, in[1], in[2]).err # Nil}

\* Request bodies: one that does not decode, and the ones that do.
RestBodies ==
  {[ok |-> FALSE, title |-> "", year |-> <<>>]}
    \cup {[ok |-> TRUE, title |-> in[1], year |-> in[2]] : in \in RestCreateInputs}

\* (page, limit) of a direct RPC.
RpcListInputs == {<<1, 2>>, <<2, 1>>, <<-1, 101>>, <<21474838, 100>>}

\* Which repository call of the request fails: none, the 1st, 2nd or 3rd.
FailAt == 0..3

\* The failures of one request: a store call fails or the RPC does.
Faults == {ft \in FailAt \X Transport : ft[1] = 0 \/ ft[2] = "ok"}

\* Ids are assigned up to MaxOps.
MayCreate(ms) == RepoGetNextID(ms, FALSE).id <= MaxOps

\* An RPC made directly: no REST status, no gateway.
Direct(op, srv) ==
  [op |-> op, req |-> NoReq, status |-> 0, text |-> "", parsed |-> TRUE,
   gw |-> [Refused(srv.store, Nil) EXCEPT
             !.cl = [NotCalled(srv.store) EXCEPT !.srv = srv]],
   store |-> srv.store]

Answer(req, h) ==
  /\ movies' = h.store
  /\ rr' = [h EXCEPT !.req = req]
  /\ UNCHANGED <<proc, schema, slot, interleaved, log, ops>>

Rest_GetMovies(pageStr, limitStr, k, t) ==
  /\ k \in 0..2
  /\ Answer([NoReq EXCEPT !.page = pageStr, !.limit = limitStr],
            HandlerGetMovies(movies, pageStr, limitStr, k, t))

Rest_GetMovie(idStr, k, t) ==
  /\ k \in 0..1
  /\ Answer([NoReq EXCEPT !.id = idStr], HandlerGetMovie(movies, idStr, k, t))

Rest_CreateMovie(body, k, t) ==
  /\ MayCreate(movies)
  /\ Answer([NoReq EXCEPT !.title = body.title, !.year = body.year],
            HandlerCreateMovie(movies, schema, body, k, t))

Rest_DeleteMovie(idStr, k, t) ==
  /\ k \in 0..2
  /\ Answer([NoReq EXCEPT !.id = idStr], HandlerDeleteMovie(movies, idStr, k, t))

Rpc_GetMovies(page, limit, k) ==
  /\ k \in 0..2
  /\ Answer([NoReq EXCEPT !.p = page, !.l = limit],
            Direct("rpc.GetMovies", ServerGetMovies(movies, page, limit, k)))

Rpc_GetMovie(id, k) ==
  /\ k \in 0..1
  /\ Answer([NoReq EXCEPT !.n = id],
            Direct("rpc.GetMovie", ServerGetMovie(movies, id, k)))

Rpc_CreateMovie(title, year, k) ==
  /\ MayCreate(movies)
  /\ Answer([NoReq EXCEPT !.title = title, !.year = year],
            Direct("rpc.CreateMovie",
                   ServerCreateMovie(movies, schema, title, year, k)))

Rpc_DeleteMovie(id, k) ==
  /\ k \in 0..2
  /\ Answer([NoReq EXCEPT !.n = id],
            Direct("rpc.DeleteMovie", ServerDeleteMovie(movies, id, k)))

RestInit == Init

RestNext ==
  \/ \E in \in RestListInputs, ft \in Faults :
       Rest_GetMovies(in[1], in[2], ft[1], ft[2])
  \/ \E i \in RestIdInputs, ft \in Faults : Rest_GetMovie(i, ft[1], ft[2])
  \/ \E b \in RestBodies, ft \in Faults : Rest_CreateMovie(b, ft[1], ft[2])
  \/ \E i \in RestIdInputs, ft \in Faults : Rest_DeleteMovie(i, ft[1], ft[2])
  \/ \E in \in RpcListInputs, k \in FailAt : Rpc_GetMovies(in[1], in[2], k)
  \/ \E i \in IdInputs, k \in FailAt : Rpc_GetMovie(i, k)
  \/ \E in \in RestCreateInputs, k \in FailAt : Rpc_CreateMovie(in[1], in[2], k)
  \/ \E i \in IdInputs, k \in FailAt : Rpc_DeleteMovie(i, k)

RestSpec == RestInit /\ [][RestNext]_vars

\* The two processes started from any of the environments.
BootInit ==
  /\ movies = <<>>
  /\ schema = TRUE
  /\ slot = [p \in Procs |-> Idle]
  /\ interleaved = [p \in Procs |-> FALSE]
  /\ log = <<>>
  /\ ops = 0
  /\ rr = NoCall
  /\ proc \in {[gateway |-> Starting(ge), backend |-> Starting(be)] :
                 ge \in GatewayEnvs, be \in BackendEnvs}

BootNext ==
  \/ Gateway_Load
  \/ Gateway_Validate
  \/ \E ok \in BOOLEAN : Gateway_Connect(ok)
  \/ Backend_Load
  \/ Backend_Validate
  \/ \E ok \in BOOLEAN : Backend_Connect(ok)

BootSpec == BootInit /\ [][BootNext]_vars


\* -------------------------------------------------------------- properties

Done(p) == slot[p].pc = "done"

Range(f) == {f[i] : i \in DOMAIN f}

FourDigits(y) == Len(y) = 4 /\ \A i \in 1..Len(y) : IsDigit(y[i])

\* The entity's constraints as the specification states them: a non-empty
\* title, a year of exactly 4 digits within [1800, current year + 10].
ValidInput(title, year) ==
  /\ title # ""
  /\ FourDigits(year)
  /\ DigitsValue(year, 0) >= 1800
  /\ DigitsValue(year, 0) <= CurrentYear + 10

\* The handler the next request goes to, and the step that begins a request
\* on handler p.
NextHandler == IF Free("h1") THEN "h1" ELSE "h2"

Began(p) == ops' = ops + 1 /\ p = NextHandler

Creates == {i \in 1..Len(log) : log[i].e = "create"}

Deletes == {i \in 1..Len(log) : log[i].e = "delete"}

\* C2: a createMovie call with valid input, whose store calls are answered,
\* never fails with anything but AlreadyExists, succeeds when no other request
\* interleaves with it, and a success returns the title and year given and an
\* id > 0.
C2_ValidCreateSucceeds ==
  \A p \in Procs :
    (Done(p) /\ slot[p].op = "create" /\ ~slot[p].fault
       /\ ValidInput(slot[p].title, slot[p].year))
    => /\ slot[p].err = Nil \/ ErrKind(slot[p].err) = "AlreadyExists"
       /\ ~interleaved[p] => slot[p].err = Nil
       /\ slot[p].err = Nil =>
            /\ slot[p].ret.title = slot[p].title
            /\ slot[p].ret.year = slot[p].year
            /\ slot[p].ret.id > 0

C2_Witness ==
  \E p \in Procs :
    /\ Done(p) /\ slot[p].op = "create" /\ slot[p].err = Nil
    /\ ~interleaved[p]
    /\ slot[p].title = "B"
    /\ slot[p].ret = MkMovie(2, "B", Itoa(MinYear))
    /\ movies[2] = [title |-> "B", year |-> Itoa(MinYear)]

\* C3: a createMovie call whose input violates a constraint ends, in the step
\* that constructs the movie, with InvalidData (its GetNextID being answered):
\* no mutating store call is made and the store is as it was.
C3_InvalidCreateRejected ==
  [][\A p \in Procs :
       (Began(p) /\ slot'[p].op = "create"
          /\ ~ValidInput(slot'[p].title, slot'[p].year))
       => /\ slot'[p].pc = "done"
          /\ movies' = movies /\ log' = log
          /\ "Create" \notin Range(slot'[p].trace)
          /\ slot'[p].fault \/ ErrKind(slot'[p].err) = "InvalidData"]_vars

C3_Witness ==
  \E p \in Procs :
    /\ Done(p) /\ slot[p].op = "create" /\ ~slot[p].fault
    /\ slot[p].year = Itoa(CurrentYear + YearSlack + 1)
    /\ ErrKind(slot[p].err) = "InvalidData"
    /\ slot[p].trace = <<"GetNextID", "NewMovie">>
    /\ DOMAIN movies = {1}

\* C4 (as claimed): every stored record has a non-empty title and a year of
\* exactly 4 digits within [1800, current year + 10], whatever Movie value
\* the repository's create was given.
C4_StoredRecordsValid ==
  \A i \in DOMAIN movies : ValidInput(movies[i].title, movies[i].year)

\* The page of the claim: the records at the 0-based positions k of the ids in
\* ascending order with (pg-1)*l <= k < pg*l, that is k \div l = pg - 1.
ExpectedPage(ms, pg, l) ==
  LET ids == SortedIds(DOMAIN ms)
      sel == {k \in 1..Len(ids) : ((k - 1) \div l) + 1 = pg}
  IN  [j \in 1..Cardinality(sel) |-> MovieOf(ms, ids[MinOf(sel) + j - 1])]

\* C5 (as claimed): getMovies(page, limit), page >= 1 and 1 <= limit <= 100,
\* returns without error exactly the records of that page in ascending id
\* order, the empty sequence for a page beyond the last record.
C5_Pagination ==
  \A p \in Procs :
    (Done(p) /\ slot[p].op = "list" /\ ~slot[p].fault /\ ~interleaved[p]
       /\ slot[p].page >= 1 /\ slot[p].limit \in 1..100)
    => /\ slot[p].err = Nil
       /\ slot[p].list = ExpectedPage(movies, slot[p].page, slot[p].limit)

C7_NextIdIsMaxPlusOne ==
  \A p \in Procs :
    (slot[p].op = "create" /\ Len(slot[p].trace) >= 2 /\ ~interleaved[p])
    => LET created == Done(p) /\ slot[p].err = Nil
           before  == IF created THEN DOMAIN movies \ {slot[p].ret.id}
                      ELSE DOMAIN movies
       IN  /\ slot[p].nextID = IF before = {} THEN 1 ELSE MaxOf(before) + 1
           /\ created => /\ slot[p].ret.id = slot[p].nextID
                         /\ slot[p].ret.id \in DOMAIN movies

C7_Witness ==
  \E p \in Procs :
    /\ Done(p) /\ slot[p].op = "create" /\ slot[p].err = Nil /\ ~interleaved[p]
    /\ slot[p].ret.id = 2
    /\ DOMAIN movies = {1, 2}

Order == <<"GetNextID", "NewMovie", "ExistsByID", "Create">>

\* The step of createMovie an error comes from, by its message.
FailedStep(err) ==
  IF err[1] = "failed to generate movie ID" THEN 1
  ELSE IF err[1] = "invalid movie data" THEN 2
  ELSE IF err[1] = "failed to create movie" THEN 4
  ELSE 3

\* C8: createMovie makes its steps in the order next-id, construct, existence
\* re-check, persist; a failing step is its last, and no step of a call that
\* fails changes the store: the store changes only in the persist step of a
\* call that succeeds, by exactly the record returned.
C8_ShortCircuit ==
  [][\A p \in Procs :
       (slot'[p] # slot[p] /\ slot'[p].op = "create")
       => LET c == slot'[p]
          IN  /\ Len(c.trace) <= Len(Order)
              /\ c.trace = SubSeq(Order, 1, Len(c.trace))
              /\ c.err # Nil =>
                   /\ c.pc = "done"
                   /\ movies' = movies
                   /\ Len(c.trace) = FailedStep(c.err)
              /\ movies' # movies =>
                   /\ c.trace = Order /\ c.err = Nil /\ c.pc = "done"
                   /\ slot[p].pc = "c_create"
                   /\ c.ret.id \notin DOMAIN movies
                   /\ movies' = [i \in DOMAIN movies \cup {c.ret.id} |->
                                   IF i = c.ret.id THEN Doc(c.ret) ELSE movies[i]]
    ]_vars

C8_Witness ==
  \E p \in Procs :
    /\ Done(p) /\ slot[p].op = "create" /\ slot[p].fault
    /\ slot[p].trace = <<"GetNextID", "NewMovie", "ExistsByID">>
    /\ slot[p].err[1] = "failed to check movie existence"
    /\ slot[p].nextID = 2
    /\ DOMAIN movies = {1}

\* C9: deleteMovie(id), id > 0, on an id that is not in the store when the
\* call looks for it (in its existence check, or in its delete after another
\* request removed the record) fails with NotFound and leaves the store as it
\* is, so a repeated call fails the same way.
C9_DeleteAbsentNotFound ==
  [][\A p \in Procs :
       /\ (Began(p) /\ slot'[p].op = "delete" /\ slot'[p].id > 0
             /\ slot'[p].id \notin DOMAIN movies /\ ~slot'[p].fault)
          => /\ slot'[p].pc = "done"
             /\ slot'[p].err = ErrMovieNotFound
             /\ movies' = movies
       /\ (slot[p].pc = "d_delete" /\ slot'[p].pc = "done"
             /\ slot[p].id \notin DOMAIN movies /\ ~slot'[p].fault)
          => /\ ErrKind(slot'[p].err) = "NotFound"
             /\ movies' = movies
    ]_vars

C9_Witness ==
  \E p \in Procs :
    /\ Done(p) /\ slot[p].op = "delete" /\ slot[p].id = 999
    /\ slot[p].err = ErrMovieNotFound
    /\ ops = 2 /\ log = <<>>

C1_NeverTwoSuccesses ==
  /\ \A i, j \in Creates : i < j => log[i].id # log[j].id
  /\ \A p \in Procs :
       (Done(p) /\ slot[p].op = "create" /\ ~slot[p].fault
          /\ ValidInput(slot[p].title, slot[p].year) /\ slot[p].err # Nil)
       => ErrKind(slot[p].err) = "AlreadyExists"

\* A record once persisted is not modified in place.
NoOverwrite ==
  \A i \in DOMAIN movies : i \in DOMAIN movies' => movies'[i] = movies[i]

\* Two successes with one id have a successful deleteMovie of that id between
\* them; a call with valid input that does not succeed failed with
\* AlreadyExists (its store calls being answered).
OneSuccessUntilDeleted ==
  /\ \A i, j \in Creates :
       (i < j /\ log[i].id = log[j].id)
       => \E k \in Deletes : i < k /\ k < j /\ log[k].id = log[i].id
  /\ \A p \in Procs :
       (Done(p) /\ slot[p].op = "create" /\ ~slot[p].fault
          /\ ValidInput(slot[p].title, slot[p].year) /\ slot[p].err # Nil)
       => ErrKind(slot[p].err) = "AlreadyExists"

\* C1 (amended): of the createMovie calls that obtain the same next id at most
\* one succeeds for as long as the record is not deleted, every other one
\* fails with AlreadyExists, and no persisted record is ever overwritten.
C1_OneSuccessUntilDeleted == [][OneSuccessUntilDeleted' /\ NoOverwrite]_vars

\* Two calls obtained id 1; one persisted it, the other passed its existence
\* check before that and was refused by the store's unique key.
C1_Witness ==
  \E p \in Procs :
    /\ Done(p) /\ slot[p].op = "create" /\ slot[p].nextID = 1
    /\ slot[p].trace = Order
    /\ slot[p].err = Wrap("failed to create movie", ErrMovieAlreadyExists)
    /\ log = <<[e |-> "create", id |-> 1]>>

\* C11: a deleteMovie that succeeds removes exactly the record with its id:
\* the id was stored, every other record is as it was, and a findById(id)
\* (and getMovie(id)) made next fails with NotFound.
C11_DeleteRemovesExactlyOne ==
  [][\A p \in Procs :
       (slot[p].pc = "d_delete" /\ slot'[p].pc = "done" /\ slot'[p].err = Nil)
       => LET id == slot[p].id
          IN  /\ id \in DOMAIN movies
              /\ DOMAIN movies' = DOMAIN movies \ {id}
              /\ \A i \in DOMAIN movies' : movies'[i] = movies[i]
              /\ RepoFindByID(movies', id, FALSE).err = ErrMovieNotFound
              /\ ErrKind(GetMovieResult(Idle, id,
                           RepoFindByID(movies', id, FALSE)).err) = "NotFound"
    ]_vars

C11_Witness ==
  /\ log = <<[e |-> "create", id |-> 1], [e |-> "create", id |-> 2],
             [e |-> "delete", id |-> 2]>>
  /\ DOMAIN movies = {1}

\* C12: getMovie(id) and deleteMovie(id) with id <= 0 fail with the
\* InvalidData error and make no repository call.
C12_NonPositiveIdRejected ==
  \A p \in Procs :
    (Done(p) /\ slot[p].op \in {"get", "delete"} /\ slot[p].id <= 0)
    => /\ slot[p].err = ErrInvalidMovieData
       /\ ErrKind(slot[p].err) = "InvalidData"
       /\ slot[p].trace = <<>>
       /\ ~slot[p].fault

C12_Witness ==
  /\ Done("h1") /\ slot["h1"].op = "get" /\ slot["h1"].id = 0
  /\ Done("h2") /\ slot["h2"].op = "delete" /\ slot["h2"].id = -1
  /\ slot["h1"].err = ErrInvalidMovieData /\ slot["h2"].err = ErrInvalidMovieData
  /\ DOMAIN movies = {1}

\* C13: getMovie(id), id > 0, whose store call is answered returns the stored
\* record with that id when there is one and fails with NotFound when there
\* is none.
C13_GetMovieByID ==
  [][\A p \in Procs :
       (Began(p) /\ slot'[p].op = "get" /\ slot'[p].id > 0 /\ ~slot'[p].fault)
       => LET c == slot'[p]
          IN  /\ c.pc = "done"
              /\ c.id \in DOMAIN movies =>
                   /\ c.err = Nil
                   /\ c.ret.id = c.id
                   /\ c.ret = MovieOf(movies, c.id)
              /\ c.id \notin DOMAIN movies =>
                   /\ ErrKind(c.err) = "NotFound"
                   /\ c.ret = NoMovie
    ]_vars

C13_Witness ==
  \E p \in Procs :
    /\ Done(p) /\ slot[p].op = "get" /\ slot[p].id = 2 /\ slot[p].err = Nil
    /\ slot[p].ret = MkMovie(2, "B", Itoa(MinYear))
    /\ DOMAIN movies = {1, 2}

\* C14: in getMovies, a count that fails after a listing that succeeded ends
\* the call with the listed page, total 0 and no error; a listing that fails
\* ends the call with an error and count is not attempted.
C14_CountFailureKeepsPage ==
  [][\A p \in Procs :
       /\ (slot[p].pc = "l_count" /\ slot'[p].pc = "done" /\ slot'[p].fault)
          => /\ slot'[p].err = Nil
             /\ slot'[p].total = 0
             /\ slot'[p].list = slot[p].list
       /\ (Began(p) /\ slot'[p].op = "list" /\ slot'[p].err # Nil)
          => /\ slot'[p].pc = "done"
             /\ slot'[p].trace = <<"FindAll">>
       /\ (slot'[p].op = "list" /\ "Count" \in Range(slot'[p].trace))
          => slot'[p].err = Nil
    ]_vars

C14_Witness ==
  \E p \in Procs :
    /\ Done(p) /\ slot[p].op = "list" /\ slot[p].fault
    /\ slot[p].trace = <<"FindAll", "Count">>
    /\ slot[p].err = Nil /\ slot[p].total = 0
    /\ Len(slot[p].list) = 1
    /\ DOMAIN movies = {1}

\* C15: the filter getMovies hands to findAll has page >= 1 and
\* 1 <= limit <= 100: a page below 1 becomes 1, a limit outside [1, 100]
\* becomes 10, and values in range are handed on as given.
C15_FilterNormalised ==
  \A p \in Procs :
    slot[p].op = "list"
    => LET c == slot[p]
       IN  /\ c.filter.page >= 1
           /\ c.filter.limit \in 1..100
           /\ c.filter.page = IF c.page < 1 THEN 1 ELSE c.page
           /\ c.filter.limit = IF c.limit \in 1..100 THEN c.limit ELSE 10

C15_Witness ==
  \E p \in Procs :
    /\ slot[p].op = "list" /\ slot[p].page = -1 /\ slot[p].limit = 101
    /\ slot[p].filter = [page |-> 1, limit |-> 10]
    /\ "FindAll" \in Range(slot[p].trace)

\* C16: round trip through the repository. A create of m that succeeds is
\* followed by a findById(m.id) that returns a record equal to m field by
\* field, and the record stays as it is in every step other than a successful
\* delete of its id.
C16_RoundTrip ==
  [][/\ \A m \in RepoMovieInputs, f \in BOOLEAN :
          (Repo_Create(m, f) /\ rr'.err = Nil)
          => LET r == RepoFindByID(movies', m.id, FALSE)
             IN  r.err = Nil /\ IsEqual(r.movie, m)
     /\ \A i \in DOMAIN movies :
          \/ i \in DOMAIN movies' /\ movies'[i] = movies[i]
          \/ rr'.op = "Delete" /\ rr'.movie.id = i /\ rr'.err = Nil
     /\ \A i \in RepoIds :
          (Repo_FindByID(i, FALSE) /\ i \in DOMAIN movies)
          => rr'.err = Nil /\ rr'.movie = MovieOf(movies, i)
    ]_vars

C16_Witness ==
  /\ rr.op = "FindByID" /\ rr.err = Nil
  /\ IsEqual(rr.movie, MkMovie(2, "B", Itoa(MinYear)))
  /\ DOMAIN movies = {1, 2}

\* C17 (as claimed): a repository create on a movie whose id is in the store
\* fails with AlreadyExists (a failure of the store call apart).
C17_DuplicateIsAlreadyExists ==
  (rr.op = "Create" /\ rr.err # Nil /\ rr.movie.id \in DOMAIN movies)
  => ErrKind(rr.err) \in {"AlreadyExists", "StorageFailure"}

\* C17 (amended): a repository create on a movie whose id is in the store
\* fails and leaves the store as it is; it fails with the validation error
\* when the movie does not pass validate, and with AlreadyExists when the
\* movie passes validate, the collection accepts the document and the store
\* call is answered.
C17_DuplicateAfterValidate ==
  [][\A m \in RepoMovieInputs, f \in BOOLEAN :
       (Repo_Create(m, f) /\ m.id \in DOMAIN movies)
       => /\ movies' = movies
          /\ rr'.err # Nil
          /\ Validate(m) # Nil => ErrKind(rr'.err) = "InvalidData"
          /\ (Validate(m) = Nil /\ ~f /\ (schema => FourDigits(m.year)))
               => rr'.err = ErrMovieAlreadyExists
    ]_vars

C17_Witness ==
  /\ rr = [op |-> "Create", movie |-> MkMovie(1, "B", Itoa(MinYear)),
           err |-> ErrMovieAlreadyExists]
  /\ DOMAIN movies = {1}
  /\ movies[1].title = "A"

\* C18 (as claimed): validate on a Movie accepts exactly the fields the
\* constructor accepts.
C18_ValidateSameAsNewMovie ==
  rr.op = "Create"
  => ((Validate(rr.movie) = Nil)
        <=> (NewMovie(rr.movie.id, rr.movie.title, rr.movie.year).err = Nil))

\* The kind of failure a REST request ended in: what the handler or the
\* gateway refused is invalid input, a call that did not complete is a remote
\* call failure, and the rest is the kind of the backend service's error.
RestFailureKind(h) ==
  LET cl == h.gw.cl
  IN  IF ~h.parsed THEN "InvalidData"
      ELSE IF h.gw.err = Nil THEN "ok"
      ELSE IF ~h.gw.called THEN "InvalidData"
      ELSE IF cl.err[Len(cl.err)] = ErrTransport[1] THEN "RemoteCallFailure"
      ELSE IF ~cl.srv.svc THEN "InvalidData"
      ELSE ErrKind(cl.srv.c.err)

\* C19 (as claimed): a REST request that fails is answered with the status
\* class of its failure: 4xx for invalid input, 404 for a record not found,
\* 4xx for a conflicting create, and 5xx only for a storage failure (or a
\* remote call that did not complete).
C19_StatusByKind ==
  rr.op \in {"GetMovies", "GetMovie", "CreateMovie", "DeleteMovie"}
  => LET kind == RestFailureKind(rr)
     IN  /\ kind = "InvalidData" => rr.status \div 100 = 4
         /\ kind = "NotFound" => rr.status = 404
         /\ kind = "AlreadyExists" => rr.status \div 100 = 4
         /\ rr.status \div 100 = 5 => kind \in {"StorageFailure", "RemoteCallFailure"}

\* C20: an RPC handler of the backend returns no transport-level error; a
\* failure of the service is answered with success = false and a non-empty
\* reason, and success = true is answered only when the service was called
\* and returned no error.
C20_FailuresInResponse ==
  LET srv == rr.gw.cl.srv
  IN  (rr.op # "none" /\ srv.ran)
      => /\ srv.terr = Nil
         /\ (srv.svc /\ srv.c.err # Nil)
              => ~srv.resp.success /\ srv.resp.error # ""
         /\ ~srv.resp.success => srv.resp.error # ""
         /\ srv.resp.success
              => srv.svc /\ srv.c.err = Nil /\ srv.resp.error = ""

C20_Witness ==
  /\ rr.op = "rpc.GetMovie"
  /\ rr.gw.cl.srv.c.err = Wrap("failed to get movie with id", ErrMovieNotFound)
  /\ rr.gw.cl.srv.resp = Failure("failed to get movie with id: movie not found")
  /\ DOMAIN movies = {1}

\* C21: the gateway's remote client returns an error exactly when the call
\* did not complete or the response has success = false; for such a response
\* the error is "movie service error: " followed by the backend's reason, and
\* with an error no movie, list or total is returned.
C21_ClientErrorIffFailure ==
  LET cl == rr.gw.cl
  IN  (rr.op # "none" /\ cl.sent)
      => /\ (cl.err # Nil) <=> (cl.t # "ok" \/ ~cl.srv.resp.success)
         /\ (cl.t = "ok" /\ ~cl.srv.resp.success)
              => /\ cl.srv.resp.error # ""
                 /\ cl.err = <<"movie service error: " \o cl.srv.resp.error>>
         /\ cl.err # Nil
              => cl.movie = NoMovie /\ cl.movies = <<>> /\ cl.total = 0
         /\ cl.err = Nil
              => /\ cl.movie = cl.srv.resp.movie
                 /\ cl.movies = cl.srv.resp.movies
                 /\ cl.total = cl.srv.resp.total

C21_Witness ==
  /\ rr.op = "GetMovie" /\ rr.gw.cl.sent /\ rr.gw.cl.t = "ok"
  /\ rr.gw.cl.err =
       <<"movie service error: failed to get movie with id: movie not found">>
  /\ rr.gw.cl.movie = NoMovie
  /\ DOMAIN movies = {1}

\* A gateway call that stopped before the remote port: an error, and nothing
\* sent, served or changed.
RefusedAtGateway(g, ms) ==
  /\ g.err # Nil
  /\ ~g.called /\ ~g.cl.sent /\ ~g.cl.srv.ran /\ ~g.cl.srv.svc
  /\ g.store = ms

\* C22: the gateway service returns an error without calling the remote port
\* for GetMovie and DeleteMovie with id <= 0 and for CreateMovie with an
\* empty title or an empty year.
C22_NoRemoteCallWhenInvalid ==
  /\ (rr.op \in {"GetMovie", "DeleteMovie"} /\ rr.parsed
        /\ ParseInt32(rr.req.id).val <= 0)
     => RefusedAtGateway(rr.gw, movies)
  /\ (rr.op = "CreateMovie" /\ rr.parsed
        /\ (rr.req.title = "" \/ rr.req.year = <<>>))
     => RefusedAtGateway(rr.gw, movies)
  /\ \A i \in IdInputs, ft \in Faults :
       i <= 0 => /\ RefusedAtGateway(GwGetMovie(movies, i, ft[1], ft[2]), movies)
                 /\ RefusedAtGateway(GwDeleteMovie(movies, i, ft[1], ft[2]), movies)

C22_Witness ==
  /\ rr.op = "DeleteMovie" /\ rr.req.id = Itoa(0)
  /\ rr.gw.err = <<"invalid movie ID">>
  /\ ~rr.gw.called
  /\ rr.status = StatusInternalServerError
  /\ DOMAIN movies = {1}

\* C23: for every page and limit of a REST request, the values the gateway
\* forwards are the values the backend's normalisation gives for the values
\* read from the request, and the backend's normalisation leaves what it
\* receives from the gateway as it is.
C23_GatewayCoercionSame ==
  rr.op = "GetMovies"
  => LET page  == ParseInt32(rr.req.page).val
         limit == ParseInt32(rr.req.limit).val
         fwd   == rr.gw.fwd
         srv   == rr.gw.cl.srv
     IN  /\ rr.gw.called
         /\ fwd = NormFilter(page, limit)
         /\ NormFilter(fwd.page, fwd.limit) = fwd
         /\ srv.svc => /\ srv.c.page = fwd.page /\ srv.c.limit = fwd.limit
                       /\ srv.c.filter = fwd

C23_Witness ==
  /\ rr.op = "GetMovies"
  /\ rr.req.page = Itoa(0) /\ rr.req.limit = Itoa(MaxLimit + 1)
  /\ rr.gw.fwd = [page |-> 1, limit |-> DefaultLimit]
  /\ rr.gw.cl.srv.svc
  /\ rr.gw.cl.srv.c.filter = [page |-> 1, limit |-> DefaultLimit]
  /\ Len(rr.gw.movies) = 2

\* C24 (as claimed): a process whose backend address (gateway) or store
\* connection string (backend) is missing from its environment ends in the
\* fatal error once its configuration is validated.
C24_MissingIsFatal ==
  /\ (~proc.gateway.env.MOVIE_SERVICE_GRPC_ADDRESS.set
        /\ proc.gateway.phase \notin {"start", "loaded"})
     => proc.gateway.phase = "fatal"
  /\ (~proc.backend.env.MONGODB_URI.set
        /\ proc.backend.phase \notin {"start", "loaded"})
     => proc.backend.phase = "fatal"

\* C24 (amended): a process whose backend address or store connection string
\* is set to the empty string ends in the fatal error and never serves; when
\* the variable is absent the default is loaded and the address or connection
\* string is not the cause of a fatal error.
C24_EmptyIsFatal ==
  LET g == proc.gateway
      b == proc.backend
  IN  /\ g.env.MOVIE_SERVICE_GRPC_ADDRESS = SetTo("")
           => g.phase \in {"start", "loaded", "fatal"}
      /\ b.env.MONGODB_URI = SetTo("")
           => b.phase \in {"start", "loaded", "fatal"}
      /\ (~g.env.MOVIE_SERVICE_GRPC_ADDRESS.set /\ g.phase # "start")
           => /\ g.cfg.MovieService.GRPCAddress = "movies-service:50051"
              /\ g.phase # "fatal"
      /\ (~b.env.MONGODB_URI.set /\ b.phase # "start")
           => /\ b.cfg.Database.ConnectionString = "mongodb://mongodb:27017"
              /\ b.phase = "fatal"
                   => b.cfg.Database.DatabaseName = "" \/ b.cfg.GRPC.Port = ""
      /\ g.phase = "serving" => g.cfg.MovieService.GRPCAddress # ""
      /\ b.phase = "serving" => b.cfg.Database.ConnectionString # ""

C24_Witness ==
  /\ proc.gateway.env.MOVIE_SERVICE_GRPC_ADDRESS = SetTo("")
  /\ proc.gateway.phase = "fatal"
  /\ proc.backend.env.MONGODB_URI = Unset
  /\ proc.backend.phase = "serving"

\* C25: whenever the service's GetMovie or DeleteMovie fails because the
\* record is absent (the failure is NotFound, from the existence check or
\* from the repository's find or delete), the error reason of the RPC
\* response is exactly "movie not found".
C25_NotFoundReason ==
  LET srv == rr.gw.cl.srv
  IN  (/\ rr.op \in {"GetMovie", "rpc.GetMovie", "DeleteMovie",
                     "rpc.DeleteMovie"}
       /\ srv.ran /\ srv.svc
       /\ ErrKind(srv.c.err) = "NotFound")
      => srv.resp.error = "movie not found"

\* C26: for every store content whose ids are signed 32-bit integers, the
\* store holding a record with id 2^31-1 included, the id GetNextID returns
\* is positive and strictly greater than every stored id.
C26_NextIdAboveAll ==
  (rr.op = "GetNextID" /\ rr.err = Nil)
  => /\ rr.movie.id > 0
     /\ \A i \in DOMAIN movies : rr.movie.id > i

\* C26, the store without a record of id 2^31-1: the id is the largest
\* stored id plus one.
C26_BelowTop ==
  (rr.op = "GetNextID" /\ rr.err = Nil /\ MaxInt32 \notin DOMAIN movies)
  => /\ rr.movie.id > 0
     /\ \A i \in DOMAIN movies : rr.movie.id > i

\* C27: for every normalised filter (1 <= page <= 2^31-1, 1 <= limit <= 100)
\* the skip offset FindAll computes in 32-bit arithmetic is non-negative and
\* is (page-1)*limit (skip is a multiple of limit whose quotient is page-1),
\* and the listing is answered by the store without an error.
C27_SkipExact ==
  \A p \in Procs :
    (Done(p) /\ slot[p].op = "list" /\ ~slot[p].fault
       /\ slot[p].filter.page >= 1 /\ slot[p].filter.limit \in 1..MaxLimit)
    => LET page  == slot[p].filter.page
           limit == slot[p].filter.limit
           skip  == Mul32(page - 1, limit)
       IN  /\ skip >= 0
           /\ skip % limit = 0
           /\ skip \div limit = page - 1
           /\ slot[p].err = Nil

\* GetMovies answered by both of its store calls.
Listed(c) ==
  /\ c.pc = "done" /\ c.op = "list" /\ c.err = Nil /\ ~c.fault
  /\ c.trace = <<"FindAll", "Count">>

\* C28 (as claimed): for every getMovies call whose listing and count both
\* succeed, under any interleaving with concurrent createMovie and
\* deleteMovie calls, the page has at most limit records and the total is
\* at least the number of records of the page.
C28_TotalCoversPage ==
  \A p \in Procs :
    Listed(slot[p])
    => /\ Len(slot[p].list) <= slot[p].filter.limit
       /\ slot[p].total >= Len(slot[p].list)

\* C28 (amended): for every getMovies call whose listing and count both
\* succeed, under any interleaving, the page has at most limit records and
\* the total is the number of records stored when count runs; the total is
\* at least the number of records of the page when no repository call of
\* another request ran between the call's listing and its count.
C28_TotalAtCount ==
  [][\A p \in Procs :
       (slot[p].pc = "l_count" /\ Listed(slot'[p]))
       => /\ Len(slot'[p].list) <= slot'[p].filter.limit
          /\ slot'[p].total = Cardinality(DOMAIN movies)
          /\ ~interleaved'[p] => slot'[p].total >= Len(slot'[p].list)
    ]_vars

C28_Witness ==
  \E p \in Procs :
    /\ Listed(slot[p]) /\ interleaved[p]
    /\ slot[p].filter.limit = 1
    /\ Len(slot[p].list) = 1
    /\ slot[p].total = 2

\* C29: the store changes only through a createMovie that succeeds, which
\* adds exactly one record, or a deleteMovie that succeeds, which removes
\* exactly one record: every step of getMovies and getMovie, and every step
\* of a createMovie or deleteMovie that returns an error, leaves the stored
\* records as they were.
C29_StoreChangesOnlyBySuccess ==
  [][/\ movies' # movies
          => \E p \in Procs :
               /\ slot'[p] # slot[p]
               /\ slot'[p].pc = "done" /\ slot'[p].err = Nil
               /\ slot'[p].op \in {"create", "delete"}
     /\ \A p \in Procs :
          slot'[p] # slot[p]
          => IF slot'[p].pc = "done" /\ slot'[p].err = Nil
                  /\ slot'[p].op = "create"
             THEN LET id == slot'[p].ret.id
                  IN  /\ id \notin DOMAIN movies
                      /\ DOMAIN movies' = DOMAIN movies \cup {id}
                      /\ \A i \in DOMAIN movies : movies'[i] = movies[i]
             ELSE IF slot'[p].pc = "done" /\ slot'[p].err = Nil
                  /\ slot'[p].op = "delete"
             THEN LET id == slot'[p].id
                  IN  /\ id \in DOMAIN movies
                      /\ DOMAIN movies' = DOMAIN movies \ {id}
                      /\ \A i \in DOMAIN movies' : movies'[i] = movies[i]
             ELSE movies' = movies
    ]_vars

C29_Witness ==
  /\ log = <<[e |-> "create", id |-> 1], [e |-> "delete", id |-> 1]>>
  /\ movies = <<>>
  /\ \E p \in Procs :
       Done(p) /\ slot[p].op = "create" /\ slot[p].err # Nil

\* C30: Movie.Update(title, year) is all-or-nothing and applies the
\* constructor's validation: when it returns an error the movie's title and
\* year are as before the call, and when it returns no error the movie is
\* one the constructor accepts.
C30_UpdateAllOrNothing ==
  rr.op = "Update"
  => /\ rr.err # Nil
          => rr.movie.title = rr.before.title /\ rr.movie.year = rr.before.year
     /\ rr.err = Nil
          => NewMovie(rr.movie.id, rr.movie.title, rr.movie.year).err = Nil

\* C30, the first half alone: an Update that returns an error leaves the
\* title and the year as they were.
C30_ErrorLeavesFields ==
  (rr.op = "Update" /\ rr.err # Nil)
  => rr.movie.title = rr.before.title /\ rr.movie.year = rr.before.year

\* C30, the second half alone: an Update that returns no error leaves a movie
\* the constructor accepts.
C30_ResultAccepted ==
  (rr.op = "Update" /\ rr.err = Nil)
  => NewMovie(rr.movie.id, rr.movie.title, rr.movie.year).err = Nil

====
